---- MODULE Spec2Model ----
(***************************************************************************)
(* Model of the pausable FIFO job queue of core/queue.py (DownloadQueue)   *)
(* and core/conversion_queue.py (ConversionQueue): one UI thread calling   *)
(* the public methods, worker threads running _worker_loop, and the        *)
(* processing callback running on the worker thread.                       *)
(*                                                                         *)
(* Granularity.  Every critical section (`with self._lock` / `with         *)
(* self._condition`) is one atomic step taken when the lock is free; the   *)
(* worker's scan holds the lock over two steps because the two Event       *)
(* objects are read inside the lock but written outside it.  Every         *)
(* lock-free read or write of job.status by the worker is a step of its    *)
(* own.  Condition waits always carry a timeout, so a waiting worker may   *)
(* resume at any moment; notify_all therefore changes no state.            *)
(***************************************************************************)
EXTENDS Integers, Sequences, FiniteSets, TLC

\* ------------------------------------------------------------------ bounds
NumJobs == 3        \* job objects the UI creates
MaxCap == 3         \* max_size is drawn from 0..MaxCap
MaxWorkers == 2     \* worker threads that can exist at the same time
MaxReadd == 1       \* job objects 1..MaxReadd may be passed to add_job again

Jobs == 1..NumJobs
Workers == 1..MaxWorkers
None == 0

\* ------------------------------------------------------------ job records
PENDING == "PENDING"
COMPLETED == "COMPLETED"
FAILED == "FAILED"
DOWNLOADING == "DOWNLOADING"
CONVERTING == "CONVERTING"

\* error_message: Optional[str] = None
NoMessage == "None"

\* download_with_retry(job, progress_callback, max_retries: int = 3)
max_retries == 3

VARIABLES
  kind,           \* "download" (DownloadQueue) or "conversion" (ConversionQueue)
  max_size,       \* self._max_size
  jobs,           \* self._jobs
  status,         \* job.status of every job object
  error_message,  \* job.error_message of every job object: NoMessage or
                  \* "exc", the text of the exception the callback raised
  current_job,    \* self._current_job
  stop_event,     \* self._stop_event.is_set()
  pause_event,    \* self._pause_event.is_set()
  worker_thread,  \* self._worker_thread: None, or the thread spawned last
  lock,           \* holder of self._lock: None or a worker
  pc,             \* position of every worker thread in _worker_loop
  job,            \* the local variable `job` of every worker thread
  next_job,       \* the job object the UI will hand to add_job next
  processed,      \* history: jobs passed to the callback, in order
  watch,          \* history: one cancel_job/remove_job call under observation
  interfered,     \* history: cancel_job, remove_job or clear_queue was called
  quiet,          \* environment: the UI has made its last call of pause,
                  \* stop, cancel_job, remove_job and clear_queue
  downloads_running,  \* main.py: self.downloads_running
  ui_pc,          \* main.py: position of the UI thread inside a handler
  attempt         \* downloader.py: download_with_retry's loop variable, for
                  \* every worker thread

vars == <<kind, max_size, jobs, status, error_message, current_job, stop_event,
          pause_event, worker_thread, lock, pc, job, next_job, processed, watch,
          interfered, quiet, downloads_running, ui_pc, attempt>>

\* the state of the application around the download queue (main.py and
\* downloader.py); the queue's own methods leave it alone
appVars == <<downloads_running, ui_pc, attempt>>

queueVars == <<jobs, status, current_job>>
flagVars == <<stop_event, pause_event, worker_thread>>
histVars == <<next_job, processed, watch, interfered, quiet>>
workerVars == <<lock, pc, job>>

\* The identity fields (url/input_path, format, output_folder) of the job
\* objects: the user asks for the same two downloads alternately, so that
\* objects 1 and 3 carry equal fields, as do objects 2 and 4.
Key(j) == j % 2

Processing == IF kind = "download" THEN DOWNLOADING ELSE CONVERTING

Terminal == {COMPLETED, FAILED}

Range(s) == {s[i] : i \in 1..Len(s)}

\* a == b on two job objects: the dataclass-generated __eq__ compares the
\* field tuples (the mutable fields other than status and error_message
\* follow the status here); list membership tries identity first.
JobEq(a, b) ==
  \/ a = b
  \/ /\ Key(a) = Key(b)
     /\ status[a] = status[b]
     /\ error_message[a] = error_message[b]

\* self._current_job == job
IsCurrent(j) == current_job # None /\ JobEq(current_job, j)

\* index of the first element of self._jobs equal to j, 0 if none
FirstEq(j) ==
  IF \E i \in 1..Len(jobs) : JobEq(jobs[i], j)
    THEN CHOOSE i \in 1..Len(jobs) :
           JobEq(jobs[i], j) /\ \A k \in 1..(i - 1) : ~JobEq(jobs[k], j)
    ELSE 0

\* job in self._jobs
InJobs(j) == FirstEq(j) # 0

\* (variant) removal by overwriting the i-th element with the last one
RemoveSwapLast(s, i) ==
  IF i = Len(s) THEN SubSeq(s, 1, Len(s) - 1)
  ELSE [SubSeq(s, 1, Len(s) - 1) EXCEPT ![i] = s[Len(s)]]

\* list.pop(i) / list.remove: the list without its i-th element
RemoveAt(s, i) == SubSeq(s, 1, i - 1) \o SubSeq(s, i + 1, Len(s))

\* (variants) the capacity test off by one, either way
QueueFullOff == Len(jobs) > max_size
QueueFullEarly == Len(jobs) >= max_size - 1

\* len(self._jobs) >= self._max_size
is_queue_full == Len(jobs) >= max_size

\* get_queue_size()
get_queue_size == Len(jobs)

\* is_job_processing(job)
is_job_processing(j) == IsCurrent(j)

\* (variant) the scan taking the last PENDING job instead of the first
FirstPendingLast ==
  IF \E i \in 1..Len(jobs) : status[jobs[i]] = PENDING
    THEN CHOOSE i \in 1..Len(jobs) :
           status[jobs[i]] = PENDING /\ \A k \in (i + 1)..Len(jobs) : status[jobs[k]] # PENDING
    ELSE 0

\* (variant) the scan taking the first entry whatever its status is
FirstEntry == IF Len(jobs) > 0 THEN 1 ELSE 0

\* (variant) the scan looking at the head of the list only
FirstPendingAtHead ==
  IF Len(jobs) > 0 /\ status[jobs[1]] = PENDING THEN 1 ELSE 0

\* the worker's scan: index of the first job whose status is PENDING, 0 if none
FirstPending ==
  IF \E i \in 1..Len(jobs) : status[jobs[i]] = PENDING
    THEN CHOOSE i \in 1..Len(jobs) :
           status[jobs[i]] = PENDING /\ \A k \in 1..(i - 1) : status[jobs[k]] # PENDING
    ELSE 0

\* threading.Thread.is_alive(); a thread that has ended leaves nothing
\* behind, so the next thread spawned takes the lowest place not in use
is_alive(w) == pc[w] # "dead"
NewThread == CHOOSE w \in Workers : ~is_alive(w) /\ \A v \in 1..(w - 1) : is_alive(v)

\* Job objects are numbered in the order in which add_job accepts them: the
\* UI creates one, calls add_job with it until it is accepted, then creates
\* the next.  So the jobs accepted so far are 1..next_job-1, in that order.
Added == 1..(next_job - 1)

\* The observation: of all the cancel_job and remove_job calls of a run, any
\* one may be picked; `how` tells where its job was at that moment.
NoWatch == [job |-> None, how |-> "none"]

\* (variant) the constructor without `self._pause_event.set()`
InitUnpaused ==
  /\ kind \in {"download", "conversion"}
  /\ max_size \in 0..MaxCap
  /\ jobs = <<>>
  /\ status = [j \in Jobs |-> PENDING]
  /\ error_message = [j \in Jobs |-> NoMessage]
  /\ current_job = None
  /\ stop_event = FALSE
  /\ pause_event = FALSE
  /\ worker_thread = None
  /\ lock = None
  /\ pc = [w \in Workers |-> "dead"]
  /\ job = [w \in Workers |-> None]
  /\ next_job = 1
  /\ processed = <<>>
  /\ watch = NoWatch
  /\ interfered = FALSE
  /\ quiet = FALSE
  /\ downloads_running = FALSE
  /\ ui_pc = "idle"
  /\ attempt = [w \in Workers |-> 0]

Init ==
  /\ kind \in {"download", "conversion"}
  /\ max_size \in 0..MaxCap
  /\ jobs = <<>>
  /\ status = [j \in Jobs |-> PENDING]
  /\ error_message = [j \in Jobs |-> NoMessage]
  /\ current_job = None
  /\ stop_event = FALSE
  /\ pause_event = TRUE
  /\ worker_thread = None
  /\ lock = None
  /\ pc = [w \in Workers |-> "dead"]
  /\ job = [w \in Workers |-> None]
  /\ next_job = 1
  /\ processed = <<>>
  /\ watch = NoWatch
  /\ interfered = FALSE
  /\ quiet = FALSE
  /\ downloads_running = FALSE
  /\ ui_pc = "idle"
  /\ attempt = [w \in Workers |-> 0]


\* ---------------------------------------------------------------- UI thread
\* (variant) start() without the is_alive() test
start_always_spawns ==
  /\ \E w \in Workers : ~is_alive(w)
  /\ stop_event' = FALSE
  /\ pause_event' = FALSE
  /\ worker_thread' = NewThread
  /\ pc' = [pc EXCEPT ![NewThread] = "loop"]
  /\ UNCHANGED <<kind, max_size, appVars, error_message, queueVars, lock, job, histVars>>

\* (variant) start() without `self._pause_event.clear()` in its spawn branch
start_keeps_pause ==
  /\ IF worker_thread = None \/ ~is_alive(worker_thread)
       THEN /\ stop_event' = FALSE
            /\ worker_thread' = NewThread
            /\ pc' = [pc EXCEPT ![NewThread] = "loop"]
            /\ UNCHANGED pause_event
       ELSE /\ lock = None
            /\ pause_event' = FALSE
            /\ UNCHANGED <<stop_event, worker_thread, pc>>
  /\ UNCHANGED <<kind, max_size, appVars, error_message, queueVars, lock, job, histVars>>

\* start(): spawn a worker unless one is alive, else resume()
start ==
  /\ IF worker_thread = None \/ ~is_alive(worker_thread)
       THEN /\ stop_event' = FALSE
            /\ pause_event' = FALSE
            /\ worker_thread' = NewThread
            /\ pc' = [pc EXCEPT ![NewThread] = "loop"]
       ELSE /\ lock = None
            /\ pause_event' = FALSE
            /\ UNCHANGED <<stop_event, worker_thread, pc>>
  /\ UNCHANGED <<kind, max_size, appVars, error_message, queueVars, lock, job, histVars>>

\* stop(): set the stop flag, notify under the lock, join for at most 5 s.
\* The caller gets past the notify when the lock is free; the only thing
\* that can happen between its flag write and that moment is the lock
\* holder's scan, which reads no flag, so the call is one step taken when
\* the lock is free.  The join returns when the worker has exited or when
\* the time is up, so at any moment.
stop ==
  /\ lock = None
  /\ stop_event' = TRUE
  /\ UNCHANGED <<kind, max_size, appVars, error_message, queueVars, pause_event, worker_thread,
                 workerVars, histVars>>

\* pause(): a bare Event.set(), no lock
pause ==
  /\ pause_event' = TRUE
  /\ UNCHANGED <<kind, max_size, appVars, error_message, queueVars, stop_event, worker_thread,
                 workerVars, histVars>>

\* a pause() call taken under observation: it records the job that is
\* current when it returns (None if there is none)
pause_observed ==
  /\ watch = NoWatch
  /\ pause_event' = TRUE
  /\ watch' = [job |-> current_job, how |-> "paused"]
  /\ UNCHANGED <<kind, max_size, appVars, error_message, queueVars, stop_event, worker_thread,
                 workerVars, next_job, processed, interfered, quiet>>

\* resume(): clear the pause flag, notify under the lock (see stop)
resume ==
  /\ lock = None
  /\ pause_event' = FALSE
  /\ UNCHANGED <<kind, max_size, appVars, error_message, queueVars, stop_event, worker_thread,
                 workerVars, histVars>>

\* what add_job(job) returns
add_job_returns == ~is_queue_full

\* add_job(job); the UI goes on to its next new job object once the one in
\* hand has been accepted
add_job(j) ==
  /\ lock = None
  /\ IF add_job_returns
       THEN /\ jobs' = Append(jobs, j)
            /\ next_job' = IF j = next_job THEN next_job + 1 ELSE next_job
       ELSE UNCHANGED <<jobs, next_job>>
  /\ UNCHANGED <<kind, max_size, appVars, error_message, status, current_job, flagVars, workerVars,
                 processed, watch, interfered, quiet>>

\* what cancel_job(job) returns: True when job is the current job or is in
\* self._jobs, the two branches that set job.status = FAILED
cancel_job_returns(j) == IsCurrent(j) \/ InJobs(j)

\* the positions of a worker thread inside the processing callback: in the
\* callback whose code is left open, and in _download_job, download_with_retry
\* and download
CallbackPcs ==
  {"in_callback", "dl_check", "dl_finish", "dwr_retry", "dj_set_completed",
   "dj_except", "dj_finally", "dj_clear_running", "dj_pause"}

\* what a cancel_job(job) call taken under observation records: where the
\* job was, if the call returns True: in the pending sequence, taken out of
\* it but not yet passed to the callback, still current after its callback
\* has returned normally, or current with its callback running; and, if the
\* call returns False, that the worker had popped the job and not yet
\* installed it as current
CancelWatch(j) ==
  IF watch # NoWatch THEN {}
  ELSE IF ~cancel_job_returns(j)
    THEN IF \E w \in Workers : job[w] = j /\ pc[w] = "install"
           THEN {[job |-> j, how |-> "cancel_miss"]}
           ELSE {}
  ELSE IF j \notin Range(processed)
    THEN {[job |-> j,
           how |-> IF j \in Range(jobs) THEN "cancel_pending" ELSE "cancel_held"]}
  ELSE IF current_job = j /\ \E w \in Workers : job[w] = j /\ pc[w] \in {"after", "set_completed"}
    THEN {[job |-> j, how |-> "cancel_current"]}
  ELSE IF current_job = j /\ \E w \in Workers : job[w] = j /\ pc[w] \in CallbackPcs
    THEN {[job |-> j, how |-> "cancel_running"]}
  ELSE {}

\* (variant) cancel_job without the write in its `job in self._jobs` branch
cancel_job_current_only(j) ==
  /\ lock = None
  /\ status' = IF IsCurrent(j) THEN [status EXCEPT ![j] = FAILED] ELSE status
  /\ watch' \in {watch} \cup CancelWatch(j)
  /\ interfered' = TRUE
  /\ UNCHANGED <<kind, max_size, appVars, error_message, jobs, current_job, flagVars, workerVars,
                 next_job, processed, quiet>>

\* cancel_job(job)
cancel_job(j) ==
  /\ lock = None
  /\ status' = IF cancel_job_returns(j) THEN [status EXCEPT ![j] = FAILED] ELSE status
  /\ watch' \in {watch} \cup CancelWatch(j)
  /\ interfered' = TRUE
  /\ UNCHANGED <<kind, max_size, appVars, error_message, jobs, current_job, flagVars, workerVars,
                 next_job, processed, quiet>>

\* what remove_job(job) returns: True when job is in self._jobs, is the
\* current job, or has status PENDING
remove_job_returns(j) == InJobs(j) \/ IsCurrent(j) \/ status[j] = PENDING

\* (variant) remove_job treating a queued job as cancel_job does: the entry
\* is marked FAILED and stays in the list
remove_job_marks_only(j) ==
  /\ lock = None
  /\ jobs' = jobs
  /\ status' = IF remove_job_returns(j) THEN [status EXCEPT ![j] = FAILED] ELSE status
  /\ watch' \in {watch} \cup
       IF watch = NoWatch /\ j \in Range(jobs)
         THEN {[job |-> j,
                how |-> IF jobs[FirstEq(j)] = j THEN "remove_self" ELSE "remove_twin"]}
         ELSE {}
  /\ interfered' = TRUE
  /\ UNCHANGED <<kind, max_size, appVars, error_message, current_job, flagVars, workerVars,
                 next_job, processed, quiet>>

\* (variant) remove_job without its third branch, the one for a job that
\* was popped and is not yet current
remove_job_two_branches(j) ==
  /\ lock = None
  /\ LET i == FirstEq(j) IN
       IF i # 0
         THEN /\ jobs' = RemoveAt(jobs, i)
              /\ status' = status
         ELSE /\ jobs' = jobs
              /\ status' = IF IsCurrent(j) THEN [status EXCEPT ![j] = FAILED] ELSE status
  /\ watch' = watch
  /\ interfered' = TRUE
  /\ UNCHANGED <<kind, max_size, appVars, error_message, current_job, flagVars, workerVars,
                 next_job, processed, quiet>>

\* what a remove_job(job) call that found no equal entry in self._jobs
\* records when taken under observation: that the worker had popped the job
\* and not yet installed it as current
RemoveHeldWatch(j) ==
  IF watch = NoWatch /\ \E w \in Workers : job[w] = j /\ pc[w] = "install"
    THEN {[job |-> j, how |-> "remove_held"]}
    ELSE {}

\* remove_job(job)
remove_job(j) ==
  /\ lock = None
  /\ LET i == FirstEq(j) IN
       IF i # 0
         THEN /\ jobs' = RemoveAt(jobs, i)
              /\ status' = status
              /\ watch' \in {watch} \cup
                   IF watch = NoWatch /\ j \in Range(jobs)
                     THEN {[job |-> j,
                            how |-> IF jobs[i] = j THEN "remove_self" ELSE "remove_twin"]}
                     ELSE {}
         ELSE /\ jobs' = jobs
              /\ watch' \in {watch} \cup RemoveHeldWatch(j)
              /\ status' = IF remove_job_returns(j)
                              THEN [status EXCEPT ![j] = FAILED]
                              ELSE status
  /\ interfered' = TRUE
  /\ UNCHANGED <<kind, max_size, appVars, error_message, current_job, flagVars, workerVars,
                 next_job, processed, quiet>>

\* what a clear_queue() call taken under observation records: one of the
\* jobs it found in the pending sequence
ClearWatch ==
  IF watch # NoWatch THEN {}
  ELSE {[job |-> j, how |-> "cleared"] : j \in Range(jobs)}

\* (variant) clear_queue without the loop that marks the jobs
clear_queue_keeps_status ==
  /\ lock = None
  /\ jobs' = <<>>
  /\ watch' \in {watch} \cup ClearWatch
  /\ interfered' = TRUE
  /\ UNCHANGED <<kind, max_size, appVars, error_message, status, current_job, flagVars,
                 workerVars, next_job, processed, quiet>>

\* clear_queue()
clear_queue ==
  /\ lock = None
  /\ status' = [j \in Jobs |-> IF j \in Range(jobs) THEN FAILED ELSE status[j]]
  /\ jobs' = <<>>
  /\ watch' \in {watch} \cup ClearWatch
  /\ interfered' = TRUE
  /\ UNCHANGED <<kind, max_size, appVars, error_message, current_job, flagVars, workerVars,
                 next_job, processed, quiet>>

\* ------------------------------------------------------------ worker thread
\* Top of the loop: `while not stop_event.is_set()` ends the thread; a set
\* pause flag sends the worker into a 0.1 s timed wait and back to the top,
\* which leaves it where it is; otherwise it enters `with self._condition`
\* and evaluates `while not stop_event.is_set() and not pause_event.is_set()`
\* holding the lock.  A scan that found nothing waits up to 1 s on the
\* condition and re-evaluates the same test, so it resumes here as well.
\* (variant) the loop testing the pause flag before the stop flag
worker_loop_pause_first(w) ==
  /\ pc[w] = "loop"
  /\ ~pause_event
  /\ IF stop_event
       THEN /\ pc' = [pc EXCEPT ![w] = "dead"]
            /\ UNCHANGED lock
       ELSE /\ lock = None
            /\ lock' = w
            /\ pc' = [pc EXCEPT ![w] = "scan"]
  /\ UNCHANGED <<kind, max_size, appVars, error_message, queueVars, flagVars, job, histVars>>

worker_loop(w) ==
  /\ pc[w] = "loop"
  /\ IF stop_event
       THEN /\ pc' = [pc EXCEPT ![w] = "dead"]
            /\ UNCHANGED lock
       ELSE /\ ~pause_event
            /\ lock = None
            /\ lock' = w
            /\ pc' = [pc EXCEPT ![w] = "scan"]
  /\ UNCHANGED <<kind, max_size, appVars, error_message, queueVars, flagVars, job, histVars>>

\* (variant) the rest of the iteration, callback included, inside the
\* `with self._condition` block: the lock is kept when a job was popped
worker_scan_keeps_lock(w) ==
  /\ pc[w] = "scan"
  /\ LET i == FirstPending IN
       IF i # 0
         THEN /\ job' = [job EXCEPT ![w] = jobs[i]]
              /\ jobs' = RemoveAt(jobs, i)
              /\ pc' = [pc EXCEPT ![w] = "install"]
              /\ lock' = w
         ELSE /\ pc' = [pc EXCEPT ![w] = "loop"]
              /\ lock' = None
              /\ UNCHANGED <<job, jobs>>
  /\ UNCHANGED <<kind, max_size, appVars, error_message, status, current_job, flagVars, histVars>>

\* for i, queued_job in enumerate(self._jobs): pop the first PENDING job
\* (lock held); if there is none, wait on the condition, releasing the lock
worker_scan(w) ==
  /\ pc[w] = "scan"
  /\ LET i == FirstPending IN
       IF i # 0
         THEN /\ job' = [job EXCEPT ![w] = jobs[i]]
              /\ jobs' = RemoveAt(jobs, i)
              /\ pc' = [pc EXCEPT ![w] = "install"]
         ELSE /\ pc' = [pc EXCEPT ![w] = "loop"]
              /\ UNCHANGED <<job, jobs>>
  /\ lock' = None
  /\ UNCHANGED <<kind, max_size, appVars, error_message, status, current_job, flagVars, histVars>>

\* with self._lock: self._current_job = job
worker_install(w) ==
  /\ pc[w] = "install"
  /\ lock = None
  /\ current_job' = job[w]
  /\ pc' = [pc EXCEPT ![w] = "recheck"]
  /\ UNCHANGED <<kind, max_size, appVars, error_message, jobs, status, flagVars, lock, job, histVars>>

\* the re-checks after the install: `status == FAILED` twice in the download
\* queue; `status != PENDING`, then `status == FAILED` in the conversion queue
SkipTest(j) ==
  IF kind = "download" THEN status[j] = FAILED ELSE status[j] # PENDING

\* The two re-checks read the same field one after the other and a status
\* that fails the first also fails the second, so they are one read.
worker_recheck(w) ==
  /\ pc[w] = "recheck"
  /\ pc' = [pc EXCEPT ![w] = IF SkipTest(job[w]) THEN "skip" ELSE "set_processing"]
  /\ UNCHANGED <<kind, max_size, appVars, error_message, queueVars, flagVars, lock, job, histVars>>

\* (variant) the skip path without the write to self._current_job
worker_skip_keeps_current(w) ==
  /\ pc[w] = "skip"
  /\ lock = None
  /\ job' = [job EXCEPT ![w] = None]
  /\ pc' = [pc EXCEPT ![w] = "loop"]
  /\ UNCHANGED <<kind, max_size, appVars, error_message, queueVars, flagVars, lock, histVars>>

\* with self._lock: self._current_job = None; continue  (job skipped)
worker_skip(w) ==
  /\ pc[w] = "skip"
  /\ lock = None
  /\ current_job' = None
  /\ job' = [job EXCEPT ![w] = None]
  /\ pc' = [pc EXCEPT ![w] = "loop"]
  /\ UNCHANGED <<kind, max_size, appVars, error_message, jobs, status, flagVars, lock, histVars>>

\* (variant) the worker calling the callback without writing the
\* processing state first
worker_set_processing_no_write(w) ==
  /\ pc[w] = "set_processing"
  /\ pc' = [pc EXCEPT ![w] = IF kind = "download" THEN "check3" ELSE "call"]
  /\ UNCHANGED <<kind, max_size, appVars, error_message, queueVars, flagVars, lock, job, histVars>>

\* job.status = DOWNLOADING / CONVERTING, written whatever the status is now
worker_set_processing(w) ==
  /\ pc[w] = "set_processing"
  /\ status' = [status EXCEPT ![job[w]] = Processing]
  /\ pc' = [pc EXCEPT ![w] = IF kind = "download" THEN "check3" ELSE "call"]
  /\ UNCHANGED <<kind, max_size, appVars, error_message, jobs, current_job, flagVars, lock, job, histVars>>

\* download queue only: "check again before calling downloader"
worker_check3(w) ==
  /\ pc[w] = "check3"
  /\ pc' = [pc EXCEPT ![w] = IF status[job[w]] = FAILED THEN "finally" ELSE "call"]
  /\ UNCHANGED <<kind, max_size, appVars, error_message, queueVars, flagVars, lock, job, histVars>>

\* self._download_callback(job) / self._conversion_callback(job) is entered
worker_call(w) ==
  /\ pc[w] = "call"
  /\ processed' = Append(processed, job[w])
  /\ pc' = [pc EXCEPT ![w] = "in_callback"]
  /\ UNCHANGED <<kind, max_size, appVars, error_message, queueVars, flagVars, lock, job,
                 next_job, watch, interfered, quiet>>

\* the callback writes job.status, as _download_job and _convert_job do
\* (the processing state on entry, COMPLETED on success, FAILED on error)
callback_write(w, s) ==
  /\ pc[w] = "in_callback"
  /\ status[job[w]] # s
  /\ status' = [status EXCEPT ![job[w]] = s]
  /\ UNCHANGED <<kind, max_size, appVars, error_message, jobs, current_job, flagVars, workerVars, histVars>>

\* the callback returns normally
callback_return(w) ==
  /\ pc[w] = "in_callback"
  /\ pc' = [pc EXCEPT ![w] = "after"]
  /\ UNCHANGED <<kind, max_size, appVars, error_message, queueVars, flagVars, lock, job, histVars>>

\* the callback raises
callback_raise(w) ==
  /\ pc[w] = "in_callback"
  /\ pc' = [pc EXCEPT ![w] = "except"]
  /\ UNCHANGED <<kind, max_size, appVars, error_message, queueVars, flagVars, lock, job, histVars>>

\* after the callback: the download queue skips the completion write when
\* the status is FAILED, the conversion queue when it is not CONVERTING
CompletionTest(j) ==
  IF kind = "download" THEN status[j] # FAILED ELSE status[j] = CONVERTING

worker_after(w) ==
  /\ pc[w] = "after"
  /\ pc' = [pc EXCEPT ![w] = IF CompletionTest(job[w]) THEN "set_completed" ELSE "finally"]
  /\ UNCHANGED <<kind, max_size, appVars, error_message, queueVars, flagVars, lock, job, histVars>>

\* job.status = COMPLETED
worker_set_completed(w) ==
  /\ pc[w] = "set_completed"
  /\ status' = [status EXCEPT ![job[w]] = COMPLETED]
  /\ pc' = [pc EXCEPT ![w] = "finally"]
  /\ UNCHANGED <<kind, max_size, appVars, error_message, jobs, current_job, flagVars, lock, job, histVars>>

\* except Exception: set FAILED unless already FAILED (download) / only if
\* still CONVERTING (conversion)
FailureTest(j) ==
  IF kind = "download" THEN status[j] # FAILED ELSE status[j] = CONVERTING

\* the except block writes job.error_message = str(e) in the conversion
\* queue only; the download queue's block has no such line
StoresMessage == kind = "conversion"

\* (variant) the exception leaving _worker_loop: the thread ends
worker_except_dies(w) ==
  /\ pc[w] = "except"
  /\ pc' = [pc EXCEPT ![w] = "dead"]
  /\ UNCHANGED <<kind, max_size, appVars, error_message, queueVars, flagVars, lock, job, histVars>>

worker_except(w) ==
  /\ pc[w] = "except"
  /\ IF FailureTest(job[w])
       THEN /\ status' = [status EXCEPT ![job[w]] = FAILED]
            /\ error_message' = IF StoresMessage
                                  THEN [error_message EXCEPT ![job[w]] = "exc"]
                                  ELSE error_message
       ELSE UNCHANGED <<status, error_message>>
  /\ pc' = [pc EXCEPT ![w] = "finally"]
  /\ UNCHANGED <<kind, max_size, appVars, jobs, current_job, flagVars, lock, job, histVars>>

\* (variant) the finally block without the write to self._current_job
worker_finally_keeps_current(w) ==
  /\ pc[w] = "finally"
  /\ lock = None
  /\ job' = [job EXCEPT ![w] = None]
  /\ pc' = [pc EXCEPT ![w] = "loop"]
  /\ UNCHANGED <<kind, max_size, appVars, error_message, jobs, status, current_job, flagVars, lock, histVars>>

\* finally: with self._lock: self._current_job = None
worker_finally(w) ==
  /\ pc[w] = "finally"
  /\ lock = None
  /\ current_job' = None
  /\ job' = [job EXCEPT ![w] = None]
  /\ pc' = [pc EXCEPT ![w] = "loop"]
  /\ UNCHANGED <<kind, max_size, appVars, error_message, jobs, status, flagVars, lock, histVars>>

\* ------------------------------------------------------------ specification
\* the job objects that exist so far: those accepted and the one in hand
Created == {j \in Jobs : j <= next_job}

\* The call taken under observation is a cancel_job or remove_job call on a
\* job not yet passed to the callback.
UIStep ==
  \/ start
  \/ stop
  \/ pause
  \/ resume
  \/ (clear_queue /\ watch' = watch)
  \/ (next_job \in Jobs /\ add_job(next_job))
  \/ \E j \in Created : cancel_job(j) /\ watch'.how \notin {"cancel_current", "cancel_miss", "cancel_running"}
  \/ \E j \in Created : remove_job(j) /\ watch'.how # "remove_held"

WorkerStep(w) ==
  \/ worker_loop(w)
  \/ worker_scan(w)
  \/ worker_install(w)
  \/ worker_recheck(w)
  \/ worker_skip(w)
  \/ worker_set_processing(w)
  \/ worker_check3(w)
  \/ worker_call(w)
  \/ worker_after(w)
  \/ worker_set_completed(w)
  \/ worker_except(w)
  \/ worker_finally(w)

CallbackStep(w) ==
  \/ \E s \in {Processing, COMPLETED, FAILED} : callback_write(w, s)
  \/ callback_return(w)
  \/ callback_raise(w)

Next ==
  \/ UIStep
  \/ \E w \in Workers : WorkerStep(w)
  \/ \E w \in Workers : CallbackStep(w)

Spec == Init /\ [][Next]_vars

\* The same runs, the call taken under observation being a cancel_job call
\* on the current job after its callback has returned, or a clear_queue call.
UIStepLate ==
  \/ start
  \/ stop
  \/ pause
  \/ resume
  \/ clear_queue
  \/ (next_job \in Jobs /\ add_job(next_job))
  \/ \E j \in Created : cancel_job(j) /\ watch'.how \in {watch.how, "cancel_current"}
  \/ \E j \in Created : remove_job(j) /\ watch' = watch

NextLate ==
  \/ UIStepLate
  \/ \E w \in Workers : WorkerStep(w)
  \/ \E w \in Workers : CallbackStep(w)

SpecLate == Init /\ [][NextLate]_vars

\* The same runs, the call taken under observation being a cancel_job call
\* that returned False for a job the worker held, or a pause() call after
\* which the UI calls neither resume() nor start().
UIStepRace ==
  \/ (watch.how # "paused" /\ start)
  \/ stop
  \/ pause
  \/ pause_observed
  \/ (watch.how # "paused" /\ resume)
  \/ (clear_queue /\ watch' = watch)
  \/ (next_job \in Jobs /\ add_job(next_job))
  \/ \E j \in Created : cancel_job(j) /\ watch'.how \in {watch.how, "cancel_miss"}
  \/ \E j \in Created : remove_job(j) /\ watch' = watch

NextRace ==
  \/ UIStepRace
  \/ \E w \in Workers : WorkerStep(w)
  \/ \E w \in Workers : CallbackStep(w)

SpecRace == Init /\ [][NextRace]_vars

\* The runs in which the UI also passes a job object that add_job has
\* accepted before to add_job again (at any later moment: while the object is
\* pending, held by the worker, current, finished or removed), the call taken
\* under observation being a remove_job call on a job the worker has popped
\* and not yet installed.
UIStepReadd ==
  \/ start
  \/ stop
  \/ pause
  \/ resume
  \/ (clear_queue /\ watch' = watch)
  \/ (next_job \in Jobs /\ add_job(next_job))
  \/ \E j \in Added \cap (1..MaxReadd) : add_job(j)
  \/ \E j \in Created : cancel_job(j) /\ watch' = watch
  \/ \E j \in Created : remove_job(j) /\ watch'.how \in {watch.how, "remove_held"}

NextReadd ==
  \/ UIStepReadd
  \/ \E w \in Workers : WorkerStep(w)
  \/ \E w \in Workers : CallbackStep(w)

SpecReadd == Init /\ [][NextReadd]_vars

\* The runs in which stop()'s join(timeout=5) returns only when the worker
\* has ended or when it is inside a callback (the only place where it can
\* stay for 5 s: its waits last 1 s at most): for as long as the stop flag is
\* set and a live worker is outside the callback, the UI thread is inside
\* join() and calls nothing.  The observation `watch` is not used in them.
Joining ==
  stop_event /\ \E w \in Workers : is_alive(w) /\ pc[w] # "in_callback"

UIStepJoin ==
  \/ (~Joining /\ start)
  \/ (~Joining /\ stop)
  \/ (~Joining /\ pause)
  \/ (~Joining /\ resume)
  \/ (~Joining /\ clear_queue /\ watch' = watch)
  \/ (~Joining /\ next_job \in Jobs /\ add_job(next_job))
  \/ (~Joining /\ \E j \in Created : cancel_job(j) /\ watch' = watch)
  \/ (~Joining /\ \E j \in Created : remove_job(j) /\ watch' = watch)

NextJoin ==
  \/ UIStepJoin
  \/ \E w \in Workers : WorkerStep(w)
  \/ \E w \in Workers : CallbackStep(w)

SpecJoin == Init /\ [][NextJoin]_vars

\* The runs in which start() is called once, on the freshly constructed
\* queue, the jobs are added after it, and resume() is never called (a second
\* start() would call it).  The observation `watch` is not used in them.
FreshStart == worker_thread = None /\ start

UIStepFresh ==
  \/ FreshStart
  \/ stop
  \/ pause
  \/ (clear_queue /\ watch' = watch)
  \/ (worker_thread # None /\ next_job \in Jobs /\ add_job(next_job))
  \/ \E j \in Created : cancel_job(j) /\ watch' = watch
  \/ \E j \in Created : remove_job(j) /\ watch' = watch

NextFresh ==
  \/ UIStepFresh
  \/ \E w \in Workers : WorkerStep(w)
  \/ \E w \in Workers : CallbackStep(w)

SpecFresh == Init /\ [][NextFresh]_vars

\* The runs in which, from some call of resume() on, the UI calls none of
\* pause, stop, cancel_job, remove_job and clear_queue any more, and in which
\* the worker threads are scheduled fairly and every callback comes back.
\* The observation `watch` is not used in these runs, and the queue is built
\* with the largest capacity.
InitLive == Init /\ max_size = MaxCap

last_resume ==
  /\ ~quiet
  /\ lock = None
  /\ pause_event' = FALSE
  /\ quiet' = TRUE
  /\ UNCHANGED <<kind, max_size, appVars, error_message, queueVars, stop_event, worker_thread,
                 workerVars, next_job, processed, watch, interfered>>

UIStepLive ==
  \/ start
  \/ resume
  \/ last_resume
  \/ (next_job \in Jobs /\ add_job(next_job))
  \/ (~quiet /\ stop)
  \/ (~quiet /\ pause)
  \/ (~quiet /\ clear_queue /\ watch' = watch)
  \/ (~quiet /\ \E j \in Created : cancel_job(j) /\ watch' = watch)
  \/ (~quiet /\ \E j \in Created : remove_job(j) /\ watch' = watch)

NextLive ==
  \/ UIStepLive
  \/ \E w \in Workers : WorkerStep(w)
  \/ \E w \in Workers : CallbackStep(w)

Fairness ==
  \A w \in Workers : WF_vars(WorkerStep(w)) /\ WF_vars(callback_return(w))

SpecLive == InitLive /\ [][NextLive]_vars /\ Fairness

\* ------------------------------------------------- the download adapter
\* main.py builds DownloadQueue(self._download_job) with the default capacity
\* (more than the jobs considered here) and calls it from the handlers below;
\* _download_job, download_with_retry and download run on the worker thread
\* in place of the callback whose code is left open.
InitApp == Init /\ kind = "download" /\ max_size = MaxCap

\* _add_job_to_queue, up to the return of download_queue.add_job(job):
\* is_queue_full() and add_job() take the lock one after the other, and the
\* worker, the only other thread, can only shorten the list in between, so
\* the two are one step
add_job_to_queue ==
  /\ ui_pc = "idle"
  /\ next_job \in Jobs
  /\ lock = None
  /\ ~is_queue_full
  /\ jobs' = Append(jobs, next_job)
  /\ next_job' = next_job + 1
  /\ ui_pc' = "add_pause"
  /\ UNCHANGED <<kind, max_size, error_message, status, current_job, flagVars, workerVars,
                 processed, watch, interfered, quiet, downloads_running, attempt>>

\* _add_job_to_queue: "Defensive: Always pause the queue after adding a job"
add_job_to_queue_pause ==
  /\ ui_pc = "add_pause"
  /\ pause_event' = TRUE
  /\ ui_pc' = "idle"
  /\ UNCHANGED <<kind, max_size, error_message, queueVars, stop_event, worker_thread,
                 workerVars, histVars, downloads_running, attempt>>

\* _start_downloads: the test of downloads_running and the write; a call
\* that finds the flag set is ignored
start_downloads ==
  /\ ui_pc = "idle"
  /\ ~downloads_running
  /\ downloads_running' = TRUE
  /\ ui_pc' = "start_call"
  /\ UNCHANGED <<kind, max_size, error_message, queueVars, flagVars, workerVars, histVars,
                 attempt>>

\* _start_downloads: self.download_queue.start()
start_downloads_start ==
  /\ ui_pc = "start_call"
  /\ IF worker_thread = None \/ ~is_alive(worker_thread)
       THEN /\ stop_event' = FALSE
            /\ pause_event' = FALSE
            /\ worker_thread' = NewThread
            /\ pc' = [pc EXCEPT ![NewThread] = "loop"]
       ELSE /\ lock = None
            /\ pause_event' = FALSE
            /\ UNCHANGED <<stop_event, worker_thread, pc>>
  /\ ui_pc' = "idle"
  /\ UNCHANGED <<kind, max_size, error_message, queueVars, lock, job, histVars,
                 downloads_running, attempt>>

\* _on_closing: self.download_queue.stop(), then the window is destroyed
on_closing ==
  /\ ui_pc = "idle"
  /\ lock = None
  /\ stop_event' = TRUE
  /\ ui_pc' = "closed"
  /\ UNCHANGED <<kind, max_size, error_message, queueVars, pause_event, worker_thread,
                 workerVars, histVars, downloads_running, attempt>>

\* The jobs the queue view shows are those passed to _add_job_to_queue; the
\* call taken under observation is a cancel_job call on the current job made
\* while its callback is running.
UIStepApp ==
  \/ add_job_to_queue
  \/ add_job_to_queue_pause
  \/ start_downloads
  \/ start_downloads_start
  \/ on_closing
  \/ (ui_pc = "idle" /\ \E j \in Added :
         cancel_job(j) /\ watch'.how \in {watch.how, "cancel_running"})
  \/ (ui_pc = "idle" /\ \E j \in Added : remove_job(j) /\ watch' = watch)

\* _download_job: job.status = JobStatus.DOWNLOADING, then download_with_retry
\* enters its loop (attempt 0)
download_job_entry(w) ==
  /\ pc[w] = "in_callback"
  /\ status' = [status EXCEPT ![job[w]] = DOWNLOADING]
  /\ attempt' = [attempt EXCEPT ![w] = 0]
  /\ pc' = [pc EXCEPT ![w] = "dl_check"]
  /\ UNCHANGED <<kind, max_size, error_message, jobs, current_job, flagVars, lock, job,
                 histVars, downloads_running, ui_pc>>

\* download(): `if job.status == JobStatus.FAILED: return`, read before the
\* metadata fetch, after it, before the subprocess, after the progress loop
\* and after process.wait() (and in every round of _monitor_progress); the
\* reads differ only in when they are made, so they are one read made at any
\* moment: a FAILED status makes download and download_with_retry return, any
\* other lets the download go on past the last read
download_check(w) ==
  /\ pc[w] = "dl_check"
  /\ pc' = [pc EXCEPT ![w] = IF status[job[w]] = FAILED THEN "dj_set_completed"
                                                       ELSE "dl_finish"]
  /\ UNCHANGED <<kind, max_size, appVars, error_message, queueVars, flagVars, lock, job,
                 histVars>>

\* download(): after the last read the subprocess has ended: the file is
\* there and download writes job.status = JobStatus.COMPLETED and returns
download_succeeds(w) ==
  /\ pc[w] = "dl_finish"
  /\ status' = [status EXCEPT ![job[w]] = COMPLETED]
  /\ pc' = [pc EXCEPT ![w] = "dj_set_completed"]
  /\ UNCHANGED <<kind, max_size, appVars, error_message, jobs, current_job, flagVars, lock,
                 job, histVars>>

\* download(): an exception at any point of the try block; every handler
\* writes job.status = FAILED and job.error_message and raises: a
\* TemporaryError (time-out, download tool error), which download_with_retry
\* catches, or an error it passes on to _download_job
download_raises(w, temporary) ==
  /\ pc[w] \in {"dl_check", "dl_finish"}
  /\ status' = [status EXCEPT ![job[w]] = FAILED]
  /\ error_message' = [error_message EXCEPT ![job[w]] = "exc"]
  /\ pc' = [pc EXCEPT ![w] = IF temporary THEN "dwr_retry" ELSE "dj_except"]
  /\ UNCHANGED <<kind, max_size, appVars, jobs, current_job, flagVars, lock, job, histVars>>

\* download_with_retry: except TemporaryError: unless this was the last
\* attempt, sleep, reset the job (status PENDING, no error message) and call
\* download again; after the last attempt raise the error
download_with_retry(w) ==
  /\ pc[w] = "dwr_retry"
  /\ IF attempt[w] < max_retries - 1
       THEN /\ status' = [status EXCEPT ![job[w]] = PENDING]
            /\ error_message' = [error_message EXCEPT ![job[w]] = NoMessage]
            /\ attempt' = [attempt EXCEPT ![w] = attempt[w] + 1]
            /\ pc' = [pc EXCEPT ![w] = "dl_check"]
       ELSE /\ pc' = [pc EXCEPT ![w] = "dj_except"]
            /\ UNCHANGED <<status, error_message, attempt>>
  /\ UNCHANGED <<kind, max_size, jobs, current_job, flagVars, lock, job, histVars,
                 downloads_running, ui_pc>>

\* _download_job, after download_with_retry has returned:
\* job.status = JobStatus.COMPLETED
download_job_completed(w) ==
  /\ pc[w] = "dj_set_completed"
  /\ status' = [status EXCEPT ![job[w]] = COMPLETED]
  /\ pc' = [pc EXCEPT ![w] = "dj_finally"]
  /\ UNCHANGED <<kind, max_size, appVars, error_message, jobs, current_job, flagVars, lock,
                 job, histVars>>

\* _download_job: except Exception: job.status = FAILED, error_message set
download_job_except(w) ==
  /\ pc[w] = "dj_except"
  /\ status' = [status EXCEPT ![job[w]] = FAILED]
  /\ error_message' = [error_message EXCEPT ![job[w]] = "exc"]
  /\ pc' = [pc EXCEPT ![w] = "dj_finally"]
  /\ UNCHANGED <<kind, max_size, appVars, jobs, current_job, flagVars, lock, job, histVars>>

\* _download_job: finally: `if self.download_queue.get_queue_size() == 0`,
\* which takes the queue's lock; otherwise the callback returns
download_job_finally(w) ==
  /\ pc[w] = "dj_finally"
  /\ lock = None
  /\ pc' = [pc EXCEPT ![w] = IF get_queue_size = 0 THEN "dj_clear_running" ELSE "after"]
  /\ UNCHANGED <<kind, max_size, appVars, error_message, queueVars, flagVars, lock, job,
                 histVars>>

\* _download_job: self.downloads_running = False
download_job_clear_running(w) ==
  /\ pc[w] = "dj_clear_running"
  /\ downloads_running' = FALSE
  /\ pc' = [pc EXCEPT ![w] = "dj_pause"]
  /\ UNCHANGED <<kind, max_size, error_message, queueVars, flagVars, lock, job, histVars,
                 ui_pc, attempt>>

\* _download_job: self.download_queue.pause(), and the callback returns
download_job_pause(w) ==
  /\ pc[w] = "dj_pause"
  /\ pause_event' = TRUE
  /\ pc' = [pc EXCEPT ![w] = "after"]
  /\ UNCHANGED <<kind, max_size, appVars, error_message, queueVars, stop_event,
                 worker_thread, lock, job, histVars>>

CallbackStepApp(w) ==
  \/ download_job_entry(w)
  \/ download_check(w)
  \/ download_succeeds(w)
  \/ \E temporary \in BOOLEAN : download_raises(w, temporary)
  \/ download_with_retry(w)
  \/ download_job_completed(w)
  \/ download_job_except(w)
  \/ download_job_finally(w)
  \/ download_job_clear_running(w)
  \/ download_job_pause(w)

\* _download_job catches every exception, so the worker's except block is
\* never entered with this callback
WorkerStepApp(w) ==
  \/ worker_loop(w)
  \/ worker_scan(w)
  \/ worker_install(w)
  \/ worker_recheck(w)
  \/ worker_skip(w)
  \/ worker_set_processing(w)
  \/ worker_check3(w)
  \/ worker_call(w)
  \/ worker_after(w)
  \/ worker_set_completed(w)
  \/ worker_finally(w)

NextApp ==
  \/ UIStepApp
  \/ \E w \in Workers : WorkerStepApp(w)
  \/ \E w \in Workers : CallbackStepApp(w)

\* the worker thread is scheduled and the download comes to an end
FairnessApp ==
  \A w \in Workers : WF_vars(WorkerStepApp(w)) /\ WF_vars(CallbackStepApp(w))

SpecApp == InitApp /\ [][NextApp]_vars /\ FairnessApp

TypeOK ==
  /\ kind \in {"download", "conversion"}
  /\ max_size \in 0..MaxCap
  /\ jobs \in Seq(Jobs)
  /\ status \in [Jobs -> {PENDING, DOWNLOADING, CONVERTING, COMPLETED, FAILED}]
  /\ error_message \in [Jobs -> {NoMessage, "exc"}]
  /\ current_job \in Jobs \cup {None}
  /\ worker_thread \in 0..MaxWorkers
  /\ lock \in Workers \cup {None}
  /\ downloads_running \in BOOLEAN
  /\ ui_pc \in {"idle", "add_pause", "start_call", "closed"}
  /\ attempt \in [Workers -> 0..(max_retries - 1)]

\* ------------------------------------------------------------------ claims
AliveWorkers == {w \in Workers : is_alive(w)}
InCallback == {w \in Workers : pc[w] = "in_callback"}

\* C1. FIFO order: as long as cancel_job, remove_job and clear_queue have
\* not been called, the jobs passed to the callback are the jobs accepted
\* first, in the order in which add_job accepted them (job n is the n-th
\* accepted), whatever pause, resume, start and stop did in between.
C1_FifoOrder ==
  ~interfered => \A i \in 1..Len(processed) : processed[i] = i

C1_Witness ==
  /\ ~interfered
  /\ Len(processed) >= 3
  /\ pause_event

\* C2. A cancelled job is never processed: a job for which cancel_job
\* returned True before the callback was invoked for it is never passed to
\* the callback.
C2_CancelledNeverProcessed ==
  watch.how \in {"cancel_pending", "cancel_held"} => watch.job \notin Range(processed)

\* C3. Idempotent terminal states: a step that is not a write of the
\* callback never changes the status of a job that is COMPLETED or FAILED.
C3_TerminalStable ==
  [][ \/ \E w \in Workers, s \in {DOWNLOADING, CONVERTING, COMPLETED, FAILED} :
            callback_write(w, s)
      \/ \A j \in Jobs : status[j] \in Terminal => status'[j] = status[j] ]_vars

\* C4. At most one worker thread is alive and at most one callback
\* invocation is in flight, also after a stop() that returned while the
\* callback was still running and the start() calls that follow it.
C4_SingleCallback ==
  /\ Cardinality(AliveWorkers) <= 1
  /\ Cardinality(InCallback) <= 1

C4_Witness ==
  /\ stop_event
  /\ ~pause_event
  /\ InCallback # {}
  /\ Len(jobs) > 0
  /\ Len(processed) >= 2

C6_CapacityRejection ==
  /\ [](add_job_returns <=> get_queue_size # max_size)
  /\ [][ \A j \in Jobs : add_job(j) =>
           IF add_job_returns
             THEN jobs' = Append(jobs, j) /\ UNCHANGED <<current_job, status>>
             ELSE UNCHANGED <<jobs, current_job, status>> ]_vars

C6_Witness ==
  /\ max_size > 0
  /\ get_queue_size = max_size
  /\ ~add_job_returns
  /\ next_job \in Jobs
  /\ lock = None

\* C7. Hard capacity cap: with max_size >= 0 the length of the pending
\* sequence is between 0 and max_size in every reachable state.
C7_HardCap ==
  max_size >= 0 => get_queue_size >= 0 /\ get_queue_size <= max_size

C7_Witness ==
  /\ max_size >= 2
  /\ get_queue_size = max_size
  /\ interfered
  /\ Len(processed) > 0

\* C8. Cancel-while-pending: cancel_job on a job that is in the pending
\* sequence returns True and sets its status to FAILED, and that job is
\* never passed to the callback afterwards.
C8_CancelWhilePending ==
  /\ [](\A j \in Range(jobs) : cancel_job_returns(j))
  /\ [][ \A j \in Jobs : (j \in Range(jobs) /\ cancel_job(j)) => status'[j] = FAILED ]_vars
  /\ [](watch.how = "cancel_pending" => watch.job \notin Range(processed))

C8_Witness ==
  /\ watch.how = "cancel_pending"
  /\ status[watch.job] = FAILED
  /\ \E i \in 1..Len(processed) : processed[i] > watch.job

\* C9. Cancelling or removing does not reorder the survivors: the jobs
\* passed to the callback are passed in the order in which they were added.
C9_OrderPreserved ==
  \A i, k \in 1..Len(processed) : i < k => processed[i] < processed[k]

\* add A, B, C; cancel B before it is processed: the callback sees A then C
C9_Witness ==
  /\ watch = [job |-> 2, how |-> "cancel_pending"]
  /\ processed = <<1, 3>>
  /\ status[2] = FAILED

\* C10 (as stated). A job on which remove_job was called while it was in the
\* pending sequence is never passed to the callback.
C10_RemovedNeverProcessed ==
  watch.how \in {"remove_self", "remove_twin"} => watch.job \notin Range(processed)

\* C10 (amended). remove_job on a job in the pending sequence returns True,
\* shortens the sequence by one and leaves the queue not full; the entry it
\* takes out is the first one that compares equal to the job, and when that
\* entry is the job itself the job is never passed to the callback.
C10_RemovePending ==
  /\ [](\A j \in Range(jobs) : remove_job_returns(j))
  /\ [][ \A j \in Jobs : (j \in Range(jobs) /\ remove_job(j)) =>
           /\ get_queue_size' = get_queue_size - 1
           /\ add_job_returns'
           /\ jobs' = RemoveAt(jobs, FirstEq(j)) ]_vars
  /\ [](watch.how = "remove_self" => watch.job \notin Range(processed))

\* capacity 1: A is added, removed while pending, and B is then accepted
\* and processed
C10_Witness ==
  /\ max_size = 1
  /\ watch = [job |-> 1, how |-> "remove_self"]
  /\ 2 \in Range(processed)

\* C11 (as stated). A pending job that cancel_job marked is counted only until
\* the worker scans: after any scan of the pending sequence by the worker the
\* cancelled job is no longer in the sequence.
C11_ScanDropsCancelled ==
  [][ \A w \in Workers :
        (worker_scan(w) /\ watch.how = "cancel_pending")
          => watch.job \notin Range(jobs') ]_vars

\* C11 (amended). A pending job that cancel_job marked keeps the status
\* FAILED and its place in the pending sequence, counted by get_queue_size()
\* and by the capacity test, through every step of the worker and of the
\* callback: only remove_job and clear_queue take it out.
C11_CancelledStaysCounted ==
  /\ [](\A j \in Range(jobs) :
          (watch.how = "cancel_pending" /\ watch.job = j) => status[j] = FAILED)
  /\ [][ (/\ watch.how = "cancel_pending"
          /\ watch.job \in Range(jobs)
          /\ watch.job \notin Range(jobs'))
          => (clear_queue \/ \E j \in Created : remove_job(j)) ]_vars

C11_Witness ==
  /\ watch = [job |-> 1, how |-> "cancel_pending"]
  /\ 1 \in Range(jobs)
  /\ 2 \in Range(processed)
  /\ max_size = 2
  /\ is_queue_full
  /\ \E w \in Workers : pc[w] = "loop"
  /\ ~pause_event /\ ~stop_event
  /\ Len(processed) = 1

\* C12 (as stated). After start() on a freshly constructed queue and jobs
\* added after it, no job is passed to the callback for as long as resume()
\* has not been called (SpecFresh: resume() is never called).
C12_NothingBeforeResume == processed = <<>>

\* C12 (amended). start() on a freshly constructed queue leaves the pause
\* flag clear, so the jobs added after it are passed to the callback without
\* resume(); what holds the worker back is the pause flag alone: the worker
\* begins a scan only from a state in which the pause and stop flags are
\* clear, and takes a job out of the pending sequence only in that scan.
C12_PauseSemantics ==
  /\ [][ FreshStart => ~pause_event' /\ ~stop_event' ]_vars
  /\ [][ \A w \in Workers :
          (pc[w] # "scan" /\ pc'[w] = "scan") => ~pause_event /\ ~stop_event ]_vars
  /\ [][ \A w \in Workers :
          job'[w] \notin {job[w], None} => pc[w] = "scan" /\ lock = w ]_vars

C12_Witness ==
  /\ Len(processed) >= 2
  /\ ~pause_event
  /\ Len(jobs) > 0
  /\ InCallback # {}

\* C13. A newly constructed queue is paused, and only resume() and start()
\* clear the pause flag; as long as start() has not been called there is no
\* worker: whatever add_job, cancel_job, remove_job, pause and clear_queue
\* did, no job has been taken by a worker or passed to the callback.
C13_PausedByConstruction ==
  /\ pause_event = TRUE
  /\ [][ (pause_event /\ ~pause_event') => (resume \/ start) ]_vars
  /\ [](worker_thread = None =>
          /\ AliveWorkers = {}
          /\ \A w \in Workers : job[w] = None
          /\ current_job = None
          /\ processed = <<>>)
  /\ [][ (worker_thread = None /\ worker_thread' = None /\ Len(jobs') < Len(jobs))
          => (clear_queue \/ \E j \in Created : remove_job(j)) ]_vars

C13_Witness ==
  /\ worker_thread = None
  /\ pause_event
  /\ Len(jobs) >= 2
  /\ interfered
  /\ \E j \in Range(jobs) : status[j] = FAILED
  /\ \E j \in Added : j \notin Range(jobs)

\* C14 (as stated). With a live worker, once resume() has been called and
\* pause, stop, cancel_job, remove_job and clear_queue are called no more,
\* every job in the pending sequence whose status is PENDING is eventually
\* passed to the callback.
C14_LiveAfterResume ==
  \A j \in Jobs :
    (quiet /\ AliveWorkers # {} /\ j \in Range(jobs) /\ status[j] = PENDING)
      ~> (j \in Range(processed))

\* C14 (amended). The same, for a live worker whose stop flag is clear: a
\* worker that stop() has told to end is still alive until it reads the flag,
\* and resume() does not take the request back.
C14_LiveAfterResumeUnstopped ==
  \A j \in Jobs :
    (quiet /\ AliveWorkers # {} /\ ~stop_event /\ j \in Range(jobs) /\ status[j] = PENDING)
      ~> (j \in Range(processed))

C14_Witness ==
  /\ quiet
  /\ ~stop_event
  /\ AliveWorkers # {}
  /\ Len(jobs) >= 2
  /\ status[jobs[1]] = FAILED
  /\ status[jobs[2]] = PENDING
  /\ Len(processed) > 0

\* C15. Cancel-while-current: once cancel_job(job) has returned True for the
\* current job, whose callback has returned normally (so that the callback
\* writes the status no more), the status is and stays FAILED: the worker's
\* bookkeeping after the callback never turns it into COMPLETED.
C15_CancelStaysFailed ==
  watch.how = "cancel_current" => status[watch.job] = FAILED

\* C16. Callback-reported failure, in both queues: when the callback raises
\* and the job still has the processing status (it was not cancelled and the
\* callback did not write it), the worker sets the status FAILED and stores
\* the exception's message in error_message; when the job is already FAILED,
\* status and error_message are left as they were.
C16_ExceptStoresMessage ==
  [][ \A w \in Workers :
        worker_except(w) =>
          /\ status[job[w]] = Processing
               => status'[job[w]] = FAILED /\ error_message'[job[w]] = "exc"
          /\ status[job[w]] = FAILED
               => status'[job[w]] = FAILED
                  /\ error_message'[job[w]] = error_message[job[w]] ]_vars

\* C17. The worker survives callback failures: from the except block the
\* worker goes on to the finally block and back to the top of its loop; a
\* worker thread ends only at the top of the loop and only when the stop flag
\* is set; and a job that is pending when a callback has raised is processed
\* afterwards (the worker being neither stopped nor paused again).
C17_WorkerSurvives ==
  /\ [][ \A w \in Workers : pc[w] = "except" => pc'[w] \in {"except", "finally"} ]_vars
  /\ [][ \A w \in Workers :
          (is_alive(w) /\ pc'[w] = "dead") => stop_event /\ pc[w] = "loop" ]_vars
  /\ \A j \in Jobs :
       (/\ quiet /\ ~stop_event
        /\ \E w \in Workers : pc[w] = "except"
        /\ j \in Range(jobs) /\ status[j] = PENDING)
         ~> (j \in Range(processed))

C17_Witness ==
  /\ kind = "conversion"
  /\ Len(processed) >= 2
  /\ error_message[processed[1]] = "exc"
  /\ status[processed[1]] = FAILED
  /\ InCallback # {}
  /\ ~stop_event

\* C18. stop() terminates the worker: once the stop flag is set, every live
\* worker thread eventually ends, be it paused, waiting on an empty queue or
\* in a callback (which returns); and the step that sets the stop flag leaves
\* the pending sequence and every job's status as they were.
C18_StopTerminates ==
  /\ \A w \in Workers : (stop_event /\ is_alive(w)) ~> ~is_alive(w)
  /\ [][ (~stop_event /\ stop_event') => jobs' = jobs /\ status' = status ]_vars

C18_Witness ==
  /\ stop_event
  /\ pause_event
  /\ AliveWorkers = {}
  /\ worker_thread # None
  /\ Len(jobs) >= 2
  /\ \A i \in 1..Len(jobs) : status[jobs[i]] = PENDING
  /\ Len(processed) > 0

\* C19. Job identity is the key triple: is_job_processing and cancel_job
\* treat a job object as the current job, or as a job of the pending
\* sequence, exactly when it agrees with that job on the key fields, whatever
\* the status and the other mutable fields of the two objects are.
C19_IdentityIsKey ==
  \A j \in Created :
    /\ is_job_processing(j) <=> (current_job # None /\ Key(current_job) = Key(j))
    /\ cancel_job_returns(j) <=>
          \/ current_job # None /\ Key(current_job) = Key(j)
          \/ \E i \in 1..Len(jobs) : Key(jobs[i]) = Key(j)

\* C20. clear_queue sets the status of every job of the pending sequence to
\* FAILED and empties the sequence, leaving the current job reference and the
\* current job's status as they were; a job it cleared is never passed to
\* the callback afterwards.
C20_ClearQueue ==
  /\ [][ clear_queue =>
          /\ jobs' = <<>>
          /\ get_queue_size' = 0
          /\ \A j \in Range(jobs) : status'[j] = FAILED
          /\ current_job' = current_job
          /\ current_job # None => status'[current_job] = status[current_job] ]_vars
  /\ [](watch.how = "cleared" =>
          /\ watch.job \notin Range(processed)
          /\ watch.job \notin Range(jobs)
          /\ status[watch.job] = FAILED)

C20_Witness ==
  /\ watch = [job |-> 2, how |-> "cleared"]
  /\ jobs = <<>>
  /\ status[2] = FAILED /\ status[3] = FAILED
  /\ current_job = 1
  /\ status[1] = Processing
  /\ InCallback # {}

\* C21. pause() stops new work: once a pause() call has returned, and for as
\* long as neither resume() nor start() is called, the worker passes no job
\* to the callback other than the job that was current when pause() returned.
C21_PauseStopsNewWork ==
  [][ \A w \in Workers :
        (watch.how = "paused" /\ worker_call(w)) => job[w] = watch.job ]_vars

\* C26. cancel_job covers every unfinished job: there is no instant at which
\* cancel_job returns False for a job that was accepted, has not been removed
\* and has not been passed to the callback, and that the worker then goes on
\* to process; a cancel_job call that found the job between the worker's pop
\* and its install as current is never followed by the job's callback.
C26_CancelCoversUnfinished ==
  watch.how = "cancel_miss" => watch.job \notin Range(processed)

\* C23. The current reference is cleared in all cases: get_current_job() is
\* not None only while a worker is between installing that job and finishing
\* the job's iteration; with every worker paused-waiting or idle-waiting at
\* the top of the loop, scanning, about to install, or exited, it is None;
\* and a worker comes back to the top of its loop, after a callback that
\* returned, a callback that raised, a cancelled job or a job skipped at the
\* re-check, only with the reference cleared.
C23_CurrentCleared ==
  /\ [](current_job # None =>
          \E w \in Workers :
            /\ job[w] = current_job
            /\ pc[w] \notin {"dead", "loop", "scan", "install"})
  /\ [][ \A w \in Workers :
          (pc[w] # "loop" /\ pc'[w] = "loop") => current_job' = None ]_vars

\* conversion queue: job 1 completed, job 2's callback raised, job 3 was
\* marked FAILED and never passed to the callback; the worker is back at the
\* top of its loop
C23_Witness ==
  /\ kind = "conversion"
  /\ current_job = None
  /\ \A w \in Workers : pc[w] \in {"loop", "dead"}
  /\ AliveWorkers # {}
  /\ processed = <<1, 2>>
  /\ status[1] = COMPLETED
  /\ status[2] = FAILED /\ error_message[2] = "exc"
  /\ status[3] = FAILED /\ 3 \in Added /\ 3 \notin Range(jobs)

\* C24. remove_job returns True only for a job the queue is tracking: a
\* remove_job(job) call made when the job is neither in the pending sequence,
\* nor the current job, nor popped by the worker and not yet installed (a job
\* never added, or already removed) returns False and changes no status.
C24_RemoveOnlyTracked ==
  [][ \A j \in Jobs :
        (/\ remove_job(j)
         /\ ~InJobs(j)
         /\ ~IsCurrent(j)
         /\ ~\E w \in Workers : job[w] = j /\ pc[w] = "install")
          => ~remove_job_returns(j) /\ status' = status ]_vars

\* C27. start() always yields a working queue: every start() call, also one
\* that follows a stop() whose join timed out because the worker was inside
\* a callback, leaves the stop flag clear and a live worker thread.
C27_StartYieldsWorkingQueue ==
  [][ start => (~stop_event' /\ AliveWorkers' # {}) ]_vars

\* C22 (as stated). Pop/install race window: a remove_job(job) call made
\* after the worker has popped the job and before it has installed it as
\* current returns True and sets the job's status to FAILED; the worker then
\* skips the job at its re-check, clears the current reference and goes back
\* to the top of its loop without invoking the callback for that job.
C22_RaceWindowRemove ==
  /\ [][ \A w \in Workers :
          (pc[w] = "install" /\ remove_job(job[w]))
            => remove_job_returns(job[w]) /\ status'[job[w]] = FAILED ]_vars
  /\ [](watch.how = "remove_held" => watch.job \notin Range(processed))

\* C22 (amended). The same for a call that finds no entry equal to the job
\* in the pending sequence (the job was not added twice): it leaves the
\* sequence as it is and the status FAILED, returning True when the status
\* was still PENDING; the worker installs the job, finds it FAILED at the
\* re-check, clears the current reference and goes back to the top of its
\* loop, and the job is never passed to the callback.
C22_RaceWindowRemoveAbsent ==
  /\ [][ \A w \in Workers :
          (pc[w] = "install" /\ ~InJobs(job[w]) /\ remove_job(job[w]))
            => /\ remove_job_returns(job[w]) <=> status[job[w]] = PENDING
               /\ status'[job[w]] = FAILED
               /\ jobs' = jobs ]_vars
  /\ [](\A w \in Workers :
          (watch.how = "remove_held" /\ job[w] = watch.job)
            => /\ status[job[w]] = FAILED
               /\ pc[w] \in {"install", "recheck", "skip"})
  /\ [][ \A w \in Workers :
          (pc[w] = "skip" /\ pc'[w] # "skip")
            => pc'[w] = "loop" /\ current_job' = None /\ processed' = processed ]_vars
  /\ [](watch.how = "remove_held" =>
          watch.job \notin Range(processed) /\ status[watch.job] = FAILED)

\* the job removed in the window was skipped and the worker has gone on to
\* a later job
C22_Witness ==
  /\ watch.how = "remove_held"
  /\ status[watch.job] = FAILED
  /\ current_job # None /\ current_job # watch.job
  /\ InCallback # {}

\* C30. At-most-once processing: whatever the UI calls, also when it adds
\* the same job object more than once, no job object is passed to the
\* callback twice (the callback writes the processing state, COMPLETED or
\* FAILED only, never PENDING).
C30_AtMostOnce ==
  \A i, k \in 1..Len(processed) : processed[i] = processed[k] => i = k

\* job object 1 was added again after it had completed and is a dead entry
\* of the pending sequence; the worker has gone past it to job 2
C30_Witness ==
  /\ processed = <<1, 2>>
  /\ status[1] = COMPLETED
  /\ Len(jobs) > 0 /\ jobs[1] = 1
  /\ ~interfered

\* C25. With the application's download callback, a download job that
\* cancel_job marked FAILED while it was current and its callback running
\* never ends with the status COMPLETED: once the worker has finished with
\* the job, its status is not COMPLETED.
C25_CancelledNotCompleted ==
  (watch.how = "cancel_running" /\ \A w \in Workers : job[w] # watch.job)
    => status[watch.job] # COMPLETED

\* C28. In the download adapter every accepted job can still be run: once
\* downloads have been started and a job has been passed to the callback,
\* and as long as no job is cancelled or removed, the adapter never comes to
\* rest (the UI thread between two handlers, the worker waiting at the top of
\* its loop or ended) with the queue paused, a PENDING job in the pending
\* sequence and downloads_running set, the state in which _start_downloads
\* is ignored and the job is never passed to the callback.
C28_StartNeverIgnored ==
  (~interfered /\ processed # <<>>) =>
    ~(/\ ui_pc = "idle"
      /\ \A w \in Workers : pc[w] \in {"loop", "dead"}
      /\ pause_event
      /\ downloads_running
      /\ \E i \in 1..Len(jobs) : status[jobs[i]] = PENDING)

\* the positions from which a worker thread's next step takes the lock: the
\* top of the loop, the install, the two places that clear the current
\* reference, and the callback's get_queue_size()
LockRequests == {"loop", "install", "skip", "finally", "dj_finally"}

\* C29. Deadlock freedom of the locking discipline: the queue's mutex is
\* held by a worker thread only during its scan, so never by a thread that is
\* about to request it and never while the callback runs; and whoever holds
\* it releases it, so that no call of the UI thread, of the worker or of the
\* callback (get_queue_size() in _download_job) waits for it forever.
C29_LockDiscipline ==
  /\ [](\A w \in Workers : lock = w => pc[w] = "scan")
  /\ [](\A w \in Workers : pc[w] \in LockRequests \cup CallbackPcs => lock # w)
  /\ (lock # None) ~> (lock = None)

\* the callback has taken and released the lock for get_queue_size() on the
\* worker thread, with a job waiting in the queue
C29_Witness ==
  /\ \E w \in Workers : pc[w] = "dj_clear_running"
  /\ lock = None
  /\ Len(jobs) > 0
  /\ Len(processed) >= 2

====
